---- MODULE Spec2Model ----
(***************************************************************************)
(* Vein server (src/index.js): the donation-request lifecycle, the         *)
(* notification fan-out and the access checks of the HTTP handlers, over   *)
(* the four collections users, donationRequests, fundings, notifications. *)
(* Every handler is one action; the store calls of a handler run in the    *)
(* order of the source.                                                    *)
(***************************************************************************)
EXTENDS Integers, Sequences, FiniteSets, TLC

\* ---------------------------------------------------------------- bounds
MaxReq == 2        \* donation requests ever inserted
MaxDay == 2        \* last calendar day (UTC) the clock reaches
MaxNotif == 2      \* notifications ever inserted
MaxStatusNotif == 1 \* notifications ever inserted in a run of the request lifecycle
MaxUsers == 2      \* user records ever inserted
MaxFund == 1       \* funding records ever inserted

MaxInFlight == 2   \* registrations between their findOne and their insertOne

\* ---------------------------------------------------------------- values
Emails == {"ann", "bob"}
NoToken == "no-token"          \* req.cookies.token is absent
BadToken == "bad-token"        \* jwt.verify fails (malformed, wrong signature, expired)
Tokens == Emails \cup {NoToken, BadToken}

Statuses == {"pending", "inprogress", "done", "canceled", "expired"}
NoDate == -1                   \* the field donationDate is absent
Null == [null |-> TRUE]        \* findOne found nothing
Idle == [op |-> "idle", code |-> 0]   \* no request has been answered since the clock moved

VARIABLES
    usersCollection,           \* sequence of user documents, _id = index
    requestsCollection,        \* function _id -> donation request document
    requestIds,                \* number of ObjectIds handed out to donation requests
    fundingCollection,         \* sequence of funding documents
    notificationsCollection,   \* sequence of notification documents, _id = index
    today,                     \* the current calendar day in UTC (todayStr)
    resp,                      \* the last request (op, req) and its response (code, body)
    inFlight                   \* handlers waiting at the await between their two store calls

vars == <<usersCollection, requestsCollection, requestIds, fundingCollection,
          notificationsCollection, today, resp, inFlight>>

\* ---------------------------------------------------------------- helpers
\* verifyToken: 401 without a token or with one jwt.verify rejects.
verifyToken(token) == token # NoToken /\ token # BadToken

\* req.user = decoded: the claims of the token (POST /jwt signs what it is given).
Decoded(token) == [email |-> token]

\* new Date().toISOString().split("T")[0]: the UTC calendar day as YYYY-MM-DD;
\* strings of that shape order as the days do.
todayStr == today

\* The local calendar day of the instant `hour` hours into UTC day `day`, for a
\* server whose clock is `tz` hours ahead of UTC (setHours(0,0,0,0) is local).
LocalDay(day, hour, tz) == day + ((hour + tz) \div 24)

\* Fault: no date check at creation.
DateNeverInPast(date, day, hour, tz) == FALSE

\* The date check of POST /donation-requests: the date, read as UTC midnight and
\* cut to local midnight, is before the local midnight of now.
DateInPast(date, day, hour, tz) ==
    date # NoDate /\ LocalDay(date, 0, tz) < LocalDay(day, hour, tz)

\* Fault: yesterday's date does not count as past.
DateLtYesterday(date, day) == date # NoDate /\ date < day - 1

\* donationDate < todayStr, in JavaScript and in the store's $lt: false for a
\* document without the field.
DateLt(date, day) == date # NoDate /\ date < day

\* Fault: the sweep's filter matches nothing.
NeverPastDue(doc, day) == FALSE

\* The filter {donationStatus: "pending", donationDate: {$lt: todayStr}}.
PastDuePending(doc, day) ==
    doc.donationStatus = "pending" /\ DateLt(doc.donationDate, day)

\* Fault: the sweep ignores the owner it was asked for.
ExpireManyOfAll(reqs, day, query) ==
    [i \in DOMAIN reqs |->
        IF reqs[i].donationStatus = "pending" /\ reqs[i].donationDate # NoDate
           /\ reqs[i].donationDate < day
        THEN [reqs[i] EXCEPT !.donationStatus = "expired"]
        ELSE reqs[i]]

\* updateMany({...query, donationStatus: "pending", donationDate: {$lt: todayStr}},
\* {$set: {donationStatus: "expired"}}): `query` holds the fields the documents
\* must equal besides.
ExpireMany(reqs, day, query) ==
    [i \in DOMAIN reqs |->
        IF (\A f \in DOMAIN query : reqs[i][f] = query[f]) /\ PastDuePending(reqs[i], day)
        THEN [reqs[i] EXCEPT !.donationStatus = "expired"]
        ELSE reqs[i]]

\* {$set: {...body}} with _id deleted, applied to one document.
SetDoc(body) == [f \in (DOMAIN body) \ {"_id"} |-> body[f]]
\* Fault: the fields the document already has win over the ones set.
KeepDoc(doc, set) ==
    [f \in (DOMAIN doc) \cup (DOMAIN set) |->
        IF f \in DOMAIN doc THEN doc[f] ELSE set[f]]

ApplySet(doc, set) ==
    [f \in (DOMAIN doc) \cup (DOMAIN set) |->
        IF f \in DOMAIN set THEN set[f] ELSE doc[f]]

\* A role is a string, kept as its characters so that the patterns of the
\* recipient queries can be matched against it.
RoleDonor == <<"d", "o", "n", "o", "r">>
RoleVolunteer == <<"v", "o", "l", "u", "n", "t", "e", "e", "r">>
RoleAdmin == <<"a", "d", "m", "i", "n">>

\* The letters that occur in upper case in the roles of the model.
ToLower == [A |-> "a", V |-> "v", D |-> "d"]
LowerCase(c) == IF c \in DOMAIN ToLower THEN ToLower[c] ELSE c

\* /word/i.test(s) for a lower-case literal word: s contains word, ignoring case.
RegexTest(word, s) ==
    \E start \in 0..(Len(s) - Len(word)) :
        \A j \in 1..Len(word) : LowerCase(s[start + j]) = word[j]

\* The $or filter of the recipient lookup of POST /donation-requests.
RecipientQuery(user, newRequest) ==
    \/ /\ user.role = RoleDonor
       /\ user.status = "active"
       /\ user.bloodGroup = newRequest.bloodGroup
       /\ user.district = newRequest.recipientDistrict
    \/ RegexTest(RoleAdmin, user.role) /\ user.status = "active"
    \/ RegexTest(RoleVolunteer, user.role) /\ user.status = "active"

\* The filter {role: {$in: [/admin/i, /volunteer/i]}, status: "active"} of POST /funding.
ManagementQuery(user) ==
    /\ RegexTest(RoleAdmin, user.role) \/ RegexTest(RoleVolunteer, user.role)
    /\ user.status = "active"

\* What the store does to the calls inside a handler's try block: nothing, the
\* lookup throws, or the insert throws after `written` documents went in.
NoFault == [at |-> "none", written |-> 0]
FindFault == [at |-> "find", written |-> 0]
InsertFault(k) == [at |-> "insert", written |-> k]

\* The documents of `docs` that reach the collection under `fault`.
Written(docs, fault) ==
    IF fault.at = "none" THEN docs
    ELSE IF fault.at = "find" THEN <<>>
    ELSE SubSeq(docs, 1, fault.written)

\* A fault can only hit a call the handler makes: the lookup when the handler
\* gets to it, the insert when there is something to insert.
FaultFits(lookedUp, docs, fault) ==
    /\ fault.at = "find" => lookedUp
    /\ fault.at = "insert" => (Len(docs) > 0 /\ fault.written <= Len(docs))

\* Fault: a failure in the notification block reaches the error handler.
Rethrow(code, fault) == IF fault.at = "none" THEN code ELSE 500

\* try { ...notify... } catch (err) { console.error(...) } followed by
\* res.send(result): a failure in the block is logged and the handler sends the
\* result of its own write.
TryCatch(code, fault) == code

\* ---------------------------------------------------------------- initial state
\* A fresh deployment: the four collections are empty.
Init ==
    /\ usersCollection = <<>>
    /\ requestsCollection = <<>>
    /\ requestIds = 0
    /\ fundingCollection = <<>>
    /\ notificationsCollection = <<>>
    /\ today = 1
    /\ resp = Idle
    /\ inFlight = <<>>

\* A handler that answers without writing to any collection.
Answer(r) ==
    /\ resp' = r
    /\ UNCHANGED <<usersCollection, requestsCollection, requestIds,
                   fundingCollection, notificationsCollection, today, inFlight>>

\* ---------------------------------------------------------------- the clock
\* A day passes.
Tick ==
    /\ today < MaxDay
    /\ today' = today + 1
    /\ resp' = Idle
    /\ UNCHANGED <<usersCollection, requestsCollection, requestIds,
                   fundingCollection, notificationsCollection, inFlight>>

\* ---------------------------------------------------------------- donation requests
\* GET /donation-requests: sweep, then list everything.
GetDonationRequests ==
    LET op == "GET /donation-requests"
        swept == ExpireMany(requestsCollection, todayStr, <<>>)
    IN  /\ requestsCollection' = swept
        /\ resp' = [op |-> op, code |-> 200, body |-> swept]
        /\ UNCHANGED <<usersCollection, requestIds, fundingCollection,
                       notificationsCollection, today, inFlight>>

\* Fault: the sweep runs before the ownership check.
GetMyDonationRequestsSweepFirst(token, email) ==
    LET op == "GET /donation-requests/my"
        req == [token |-> token, email |-> email]
        swept == ExpireMany(requestsCollection, todayStr,
                            [requesterEmail |-> email])
        mine == {i \in DOMAIN swept : swept[i].requesterEmail = email}
    IN  IF ~verifyToken(token)
        THEN Answer([op |-> op, code |-> 401])
        ELSE /\ requestsCollection' = swept
             /\ resp' = IF Decoded(token).email # email
                        THEN [op |-> op, req |-> req, code |-> 403]
                        ELSE [op |-> op, req |-> req, code |-> 200,
                              body |-> [i \in mine |-> swept[i]]]
             /\ UNCHANGED <<usersCollection, requestIds, fundingCollection,
                            notificationsCollection, today, inFlight>>

\* GET /donation-requests/my?email=: the caller's own requests, swept first.
GetMyDonationRequests(token, email) ==
    LET op == "GET /donation-requests/my"
        req == [token |-> token, email |-> email]
        swept == ExpireMany(requestsCollection, todayStr,
                            [requesterEmail |-> email])
        mine == {i \in DOMAIN swept : swept[i].requesterEmail = email}
    IN  IF ~verifyToken(token)
        THEN Answer([op |-> op, code |-> 401])
        ELSE IF Decoded(token).email # email
        THEN Answer([op |-> op, req |-> req, code |-> 403])
        ELSE /\ requestsCollection' = swept
             /\ resp' = [op |-> op, req |-> req, code |-> 200,
                         body |-> [i \in mine |-> swept[i]]]
             /\ UNCHANGED <<usersCollection, requestIds, fundingCollection,
                            notificationsCollection, today, inFlight>>

\* Fault: an id that finds nothing is answered 404.
GetDonationRequestOrFail(id) ==
    LET op == "GET /donation-requests/:id"
        req == [id |-> id]
        found == id \in DOMAIN requestsCollection
        request == requestsCollection[id]
    IN  IF ~found
        THEN Answer([op |-> op, req |-> req, code |-> 404])
        ELSE IF request.donationStatus = "pending"
                /\ DateLt(request.donationDate, todayStr)
        THEN /\ requestsCollection' =
                    [requestsCollection EXCEPT ![id].donationStatus = "expired"]
             /\ resp' = [op |-> op, req |-> req, code |-> 200,
                         body |-> [request EXCEPT !.donationStatus = "expired"]]
             /\ UNCHANGED <<usersCollection, requestIds, fundingCollection,
                            notificationsCollection, today, inFlight>>
        ELSE Answer([op |-> op, req |-> req, code |-> 200, body |-> request])

\* Fault: the response carries the document as findOne read it.
GetDonationRequestAsRead(id) ==
    LET op == "GET /donation-requests/:id"
        req == [id |-> id]
        found == id \in DOMAIN requestsCollection
        request == requestsCollection[id]
    IN  IF found /\ request.donationStatus = "pending"
                 /\ DateLt(request.donationDate, todayStr)
        THEN /\ requestsCollection' =
                    [requestsCollection EXCEPT ![id].donationStatus = "expired"]
             /\ resp' = [op |-> op, req |-> req, code |-> 200, body |-> request]
             /\ UNCHANGED <<usersCollection, requestIds, fundingCollection,
                            notificationsCollection, today, inFlight>>
        ELSE Answer([op |-> op, req |-> req, code |-> 200,
                     body |-> IF found THEN request ELSE Null])

\* GET /donation-requests/:id: findOne, then expire that one document if it is
\* pending and past-due; the response carries the document read, edited.
GetDonationRequest(id) ==
    LET op == "GET /donation-requests/:id"
        req == [id |-> id]
        found == id \in DOMAIN requestsCollection
        request == requestsCollection[id]
    IN  IF found /\ request.donationStatus = "pending"
                 /\ DateLt(request.donationDate, todayStr)
        THEN /\ requestsCollection' =
                    [requestsCollection EXCEPT ![id].donationStatus = "expired"]
             /\ resp' = [op |-> op, req |-> req, code |-> 200,
                         body |-> [request EXCEPT !.donationStatus = "expired"]]
             /\ UNCHANGED <<usersCollection, requestIds, fundingCollection,
                            notificationsCollection, today, inFlight>>
        ELSE Answer([op |-> op, req |-> req, code |-> 200,
                     body |-> IF found THEN request ELSE Null])

\* POST /donation-requests: validate the date, insert as pending, then notify the
\* matching users inside a try block. `hour` and `tz` are the time of day and the
\* server's offset from UTC at the call.
PostDonationRequest(token, request, hour, tz, fault) ==
    LET op == "POST /donation-requests"
        req == [token |-> token, body |-> request]
        newRequest == ApplySet(request, [donationStatus |-> "pending"])
        insertedId == requestIds + 1
        recipients == SelectSeq(usersCollection,
                                LAMBDA user : RecipientQuery(user, newRequest))
        notifications ==
            [i \in 1..Len(recipients) |->
                [email |-> recipients[i].email,
                 message |-> <<"New blood request", newRequest.bloodGroup,
                               newRequest.recipientDistrict>>,
                 link |-> <<"/donation-requests", insertedId>>,
                 isRead |-> FALSE]]
    IN  IF ~verifyToken(token)
        THEN Answer([op |-> op, code |-> 401])
        ELSE IF DateInPast(request.donationDate, today, hour, tz)
        THEN Answer([op |-> op, req |-> req, code |-> 400])
        ELSE /\ FaultFits(TRUE, notifications, fault)
             /\ requestsCollection' = (insertedId :> newRequest) @@ requestsCollection
             /\ requestIds' = insertedId
             /\ notificationsCollection' =
                    notificationsCollection \o Written(notifications, fault)
             /\ resp' = [op |-> op, req |-> req, code |-> TryCatch(200, fault),
                         fault |-> fault.at,
                         body |-> [insertedId |-> insertedId]]
             /\ UNCHANGED <<usersCollection, fundingCollection, today, inFlight>>

\* Fault: an empty status counts as a status.
Present(body, field) == field \in DOMAIN body

\* GET /donation-requests/:id up to its second await: findOne({_id}) runs, and
\* the handler either answers or waits to update a pending past-due request.
GetDonationRequestFindOne(id) ==
    LET op == "GET /donation-requests/:id"
        req == [id |-> id]
        found == id \in DOMAIN requestsCollection
        request == requestsCollection[id]
    IN  IF found /\ request.donationStatus = "pending"
                 /\ DateLt(request.donationDate, todayStr)
        THEN /\ inFlight' = Append(inFlight, [id |-> id, request |-> request])
             /\ UNCHANGED <<usersCollection, requestsCollection, requestIds,
                            fundingCollection, notificationsCollection, today, resp>>
        ELSE Answer([op |-> op, req |-> req, code |-> 200,
                     body |-> IF found THEN request ELSE Null])

\* GET /donation-requests/:id from that await on, for the k-th waiting call:
\* updateOne({_id}, {$set: {donationStatus: "expired"}}), then the answer.
GetDonationRequestUpdateOne(k) ==
    LET op == "GET /donation-requests/:id"
        id == inFlight[k].id
        request == inFlight[k].request
    IN  /\ k \in DOMAIN inFlight
        /\ requestsCollection' =
              IF id \in DOMAIN requestsCollection
              THEN [requestsCollection EXCEPT ![id].donationStatus = "expired"]
              ELSE requestsCollection
        /\ inFlight' = SubSeq(inFlight, 1, k - 1) \o SubSeq(inFlight, k + 1, Len(inFlight))
        /\ resp' = [op |-> op, req |-> [id |-> id], code |-> 200,
                    body |-> [request EXCEPT !.donationStatus = "expired"]]
        /\ UNCHANGED <<usersCollection, requestIds, fundingCollection,
                       notificationsCollection, today>>

\* if (body.field): the field is there and is not the empty string.
Truthy(body, field) == field \in DOMAIN body /\ body[field] # ""

\* The notification PATCH /donation-requests/:id builds from the request it reads
\* back after the update.
StatusNotification(request, body) ==
    [email |-> request.requesterEmail,
     message |-> <<"Your blood request status has updated to", body.donationStatus>>,
     link |-> <<>>,
     isRead |-> FALSE]

\* PATCH /donation-requests/:id: refuse a claim of a past-due request, apply the
\* body as $set, then notify the requester inside a try block.
PatchDonationRequest(token, id, body, fault) ==
    LET op == "PATCH /donation-requests/:id"
        req == [token |-> token, id |-> id, body |-> body]
        found == id \in DOMAIN requestsCollection
        checkRequest == requestsCollection[id]
        claims == "donationStatus" \in DOMAIN body /\ body.donationStatus = "inprogress"
        hasStatus == Truthy(body, "donationStatus")
        updated == IF found
                   THEN [requestsCollection EXCEPT ![id] = ApplySet(@, SetDoc(body))]
                   ELSE requestsCollection
        request == updated[id]
        notifications ==
            IF hasStatus /\ found THEN <<StatusNotification(request, body)>> ELSE <<>>
    IN  IF ~verifyToken(token)
        THEN Answer([op |-> op, code |-> 401])
        ELSE IF claims /\ found /\ DateLt(checkRequest.donationDate, todayStr)
        THEN Answer([op |-> op, req |-> req, code |-> 400])
        ELSE /\ FaultFits(hasStatus, notifications, fault)
             /\ requestsCollection' = updated
             /\ notificationsCollection' =
                    notificationsCollection \o Written(notifications, fault)
             /\ resp' = [op |-> op, req |-> req, code |-> TryCatch(200, fault),
                         fault |-> fault.at,
                         body |-> [matchedCount |-> IF found THEN 1 ELSE 0,
                                   modifiedCount |->
                                       IF updated # requestsCollection THEN 1 ELSE 0]]
             /\ UNCHANGED <<usersCollection, requestIds, fundingCollection, today, inFlight>>

\* DELETE /donation-requests/:id
DeleteDonationRequest(token, id) ==
    LET op == "DELETE /donation-requests/:id"
        req == [token |-> token, id |-> id]
        found == id \in DOMAIN requestsCollection
    IN  IF ~verifyToken(token)
        THEN Answer([op |-> op, code |-> 401])
        ELSE /\ requestsCollection' =
                    [i \in (DOMAIN requestsCollection) \ {id} |->
                        requestsCollection[i]]
             /\ resp' = [op |-> op, req |-> req, code |-> 200,
                         body |-> [deletedCount |-> IF found THEN 1 ELSE 0]]
             /\ UNCHANGED <<usersCollection, requestIds, fundingCollection,
                            notificationsCollection, today, inFlight>>

\* ---------------------------------------------------------------- users
\* Fault: the lookup by email finds nothing.
FindNobody(email) == Null

\* findOne({email}): the first user document with that email, or Null.
FindUser(email) ==
    LET hits == {i \in DOMAIN usersCollection : usersCollection[i].email = email}
    IN  IF hits = {} THEN Null
        ELSE usersCollection[CHOOSE i \in hits : \A j \in hits : i <= j]

\* user?.role
RoleOf(user) == IF user = Null THEN <<>> ELSE user.role

\* updateOne({email}, {$set}): the first document with that email is updated.
UpdateUserByEmail(email, set) ==
    LET hits == {i \in DOMAIN usersCollection : usersCollection[i].email = email}
        first == CHOOSE i \in hits : \A j \in hits : i <= j
    IN  IF hits = {} THEN usersCollection
        ELSE [usersCollection EXCEPT ![first] = ApplySet(@, set)]

\* Fault: the gate goes by the role the caller had when the session began.
verifyAdminAtLogin(token) == token = "ann"

\* verifyAdmin: the role stored for the caller's email is exactly "admin".
verifyAdmin(token) == RoleOf(FindUser(Decoded(token).email)) = RoleAdmin

\* verifyVolunteer: the stored role is exactly "volunteer" or "admin".
verifyVolunteer(token) ==
    LET role == RoleOf(FindUser(Decoded(token).email))
    IN  role = RoleVolunteer \/ role = RoleAdmin

\* POST /users: register unless the email is taken; role and status are forced.
PostUser(newUser) ==
    LET op == "POST /users"
        req == [body |-> newUser]
        existingUser == FindUser(newUser.email)
        userToSave == ApplySet(newUser, [role |-> RoleDonor, status |-> "active"])
    IN  IF existingUser # Null
        THEN Answer([op |-> op, req |-> req, code |-> 200,
                     body |-> [message |-> "User already exists", insertedId |-> Null]])
        ELSE /\ usersCollection' = Append(usersCollection, userToSave)
             /\ resp' = [op |-> op, req |-> req, code |-> 200,
                         body |-> [insertedId |-> Len(usersCollection) + 1]]
             /\ UNCHANGED <<requestsCollection, requestIds, fundingCollection,
                            notificationsCollection, today, inFlight>>

\* POST /users up to its first await: findOne({email}) runs and the handler
\* either answers "User already exists" or waits to insert.
PostUserFindOne(newUser) ==
    LET op == "POST /users"
        req == [body |-> newUser]
        existingUser == FindUser(newUser.email)
    IN  IF existingUser # Null
        THEN Answer([op |-> op, req |-> req, code |-> 200,
                     body |-> [message |-> "User already exists", insertedId |-> Null]])
        ELSE /\ inFlight' = Append(inFlight, newUser)
             /\ UNCHANGED <<usersCollection, requestsCollection, requestIds,
                            fundingCollection, notificationsCollection, today, resp>>

\* POST /users from that await on: insertOne(userToSave) and the answer, for
\* the k-th waiting registration.
PostUserInsertOne(k) ==
    LET op == "POST /users"
        newUser == inFlight[k]
        userToSave == ApplySet(newUser, [role |-> RoleDonor, status |-> "active"])
    IN  /\ k \in DOMAIN inFlight
        /\ usersCollection' = Append(usersCollection, userToSave)
        /\ inFlight' = SubSeq(inFlight, 1, k - 1) \o SubSeq(inFlight, k + 1, Len(inFlight))
        /\ resp' = [op |-> op, req |-> [body |-> newUser], code |-> 200,
                    body |-> [insertedId |-> Len(usersCollection) + 1]]
        /\ UNCHANGED <<requestsCollection, requestIds, fundingCollection,
                       notificationsCollection, today>>

\* GET /donors: the active donors, filtered by the query parameters that are given
\* ("" is a parameter left out).
GetDonors(bloodGroup, district) ==
    LET hit(user) ==
            /\ user.role = RoleDonor
            /\ user.status = "active"
            /\ bloodGroup # "" => user.bloodGroup = bloodGroup
            /\ district # "" => user.district = district
    IN  Answer([op |-> "GET /donors",
                req |-> [bloodGroup |-> bloodGroup, district |-> district],
                code |-> 200, body |-> SelectSeq(usersCollection, hit)])

\* Fault: the self-update sets every field of the body.
PatchUserAnyField(token, email, user) ==
    LET op == "PATCH /users/:email"
        req == [token |-> token, email |-> email, body |-> user]
    IN  IF ~verifyToken(token)
        THEN Answer([op |-> op, code |-> 401])
        ELSE /\ usersCollection' = UpdateUserByEmail(email, user)
             /\ resp' = [op |-> op, req |-> req, code |-> 200,
                         body |-> [matchedCount |-> IF FindUser(email) = Null
                                                    THEN 0 ELSE 1]]
             /\ UNCHANGED <<requestsCollection, requestIds, fundingCollection,
                            notificationsCollection, today, inFlight>>

\* PATCH /users/:email: $set of the body without role and email.
PatchUser(token, email, user) ==
    LET op == "PATCH /users/:email"
        req == [token |-> token, email |-> email, body |-> user]
        set == [f \in (DOMAIN user) \ {"role", "email"} |-> user[f]]
        updated == UpdateUserByEmail(email, set)
    IN  IF ~verifyToken(token)
        THEN Answer([op |-> op, code |-> 401])
        ELSE /\ usersCollection' = updated
             /\ resp' = [op |-> op, req |-> req, code |-> 200,
                         body |-> [matchedCount |-> IF FindUser(email) = Null
                                                    THEN 0 ELSE 1]]
             /\ UNCHANGED <<requestsCollection, requestIds, fundingCollection,
                            notificationsCollection, today, inFlight>>

\* GET /users/role/:email
GetUserRole(token, email) ==
    LET op == "GET /users/role/:email"
        req == [token |-> token, email |-> email]
    IN  IF ~verifyToken(token)
        THEN Answer([op |-> op, code |-> 401])
        ELSE Answer([op |-> op, req |-> req, code |-> 200,
                     body |-> [role |-> RoleOf(FindUser(email))]])

\* GET /users/:email
GetUser(token, email) ==
    LET op == "GET /users/:email"
        req == [token |-> token, email |-> email]
    IN  IF ~verifyToken(token)
        THEN Answer([op |-> op, code |-> 401])
        ELSE Answer([op |-> op, req |-> req, code |-> 200, body |-> FindUser(email)])

\* GET /users: for volunteers and admins.
GetUsers(token) ==
    LET op == "GET /users"
        req == [token |-> token]
    IN  IF ~verifyToken(token)
        THEN Answer([op |-> op, code |-> 401])
        ELSE IF ~verifyVolunteer(token)
        THEN Answer([op |-> op, req |-> req, code |-> 403])
        ELSE Answer([op |-> op, req |-> req, code |-> 200, body |-> usersCollection])

\* PATCH /users/update/:id: for admins; $set of the body without _id.
PatchUserById(token, id, updateData) ==
    LET op == "PATCH /users/update/:id"
        req == [token |-> token, id |-> id, body |-> updateData]
        found == id \in DOMAIN usersCollection
    IN  IF ~verifyToken(token)
        THEN Answer([op |-> op, code |-> 401])
        ELSE IF ~verifyAdmin(token)
        THEN Answer([op |-> op, req |-> req, code |-> 403])
        ELSE /\ usersCollection' =
                    IF found
                    THEN [usersCollection EXCEPT ![id] = ApplySet(@, SetDoc(updateData))]
                    ELSE usersCollection
             /\ resp' = [op |-> op, req |-> req, code |-> 200,
                         body |-> [matchedCount |-> IF found THEN 1 ELSE 0]]
             /\ UNCHANGED <<requestsCollection, requestIds, fundingCollection,
                            notificationsCollection, today, inFlight>>

\* ---------------------------------------------------------------- funding
RECURSIVE SumAmounts(_)
\* $group {_id: null, totalAmount: {$sum: "$amount"}}
SumAmounts(docs) ==
    IF docs = <<>> THEN 0 ELSE Head(docs).amount + SumAmounts(Tail(docs))

RECURSIVE DigitsValue(_)
DigitsValue(digits) ==
    IF digits = <<>> THEN 0
    ELSE 10 * DigitsValue(SubSeq(digits, 1, Len(digits) - 1)) + digits[Len(digits)]

\* parseFloat of an amount sent as a string of decimal digits.
parseFloat(digits) == DigitsValue(digits)

\* POST /funding: insert the contribution, then notify the active admins and
\* volunteers inside a try block.
PostFunding(token, funding, fault) ==
    LET op == "POST /funding"
        req == [token |-> token, body |-> funding]
        newFunding == ApplySet(funding, [amount |-> parseFloat(funding.amount)])
        adminsAndVolunteers == SelectSeq(usersCollection, ManagementQuery)
        notifications ==
            [i \in 1..Len(adminsAndVolunteers) |->
                [email |-> adminsAndVolunteers[i].email,
                 message |-> <<"New funding received", newFunding.amount>>,
                 link |-> <<"/dashboard">>,
                 isRead |-> FALSE]]
    IN  IF ~verifyToken(token)
        THEN Answer([op |-> op, code |-> 401])
        ELSE /\ FaultFits(TRUE, notifications, fault)
             /\ fundingCollection' = Append(fundingCollection, newFunding)
             /\ notificationsCollection' =
                    notificationsCollection \o Written(notifications, fault)
             /\ resp' = [op |-> op, req |-> req, code |-> TryCatch(200, fault),
                         fault |-> fault.at,
                         body |-> [insertedId |-> Len(fundingCollection) + 1]]
             /\ UNCHANGED <<usersCollection, requestsCollection, requestIds, today, inFlight>>

\* GET /funding: for volunteers and admins.
GetFunding(token) ==
    LET op == "GET /funding"
        req == [token |-> token]
    IN  IF ~verifyToken(token)
        THEN Answer([op |-> op, code |-> 401])
        ELSE IF ~verifyVolunteer(token)
        THEN Answer([op |-> op, req |-> req, code |-> 403])
        ELSE Answer([op |-> op, req |-> req, code |-> 200, body |-> fundingCollection])

\* GET /admin-stats: for volunteers and admins.
GetAdminStats(token) ==
    LET op == "GET /admin-stats"
        req == [token |-> token]
    IN  IF ~verifyToken(token)
        THEN Answer([op |-> op, code |-> 401])
        ELSE IF ~verifyVolunteer(token)
        THEN Answer([op |-> op, req |-> req, code |-> 403])
        ELSE Answer([op |-> op, req |-> req, code |-> 200,
                     body |-> [users |-> Len(usersCollection),
                               requests |-> Cardinality(DOMAIN requestsCollection),
                               funding |-> SumAmounts(fundingCollection)]])

\* ---------------------------------------------------------------- notifications
\* find({email}).sort({createdAt: -1}): the notifications of that email, the
\* newest first; createdAt grows with the _id.
RECURSIVE NewestFirst(_, _)
NewestFirst(docs, email) ==
    IF docs = <<>> THEN <<>>
    ELSE LET last == docs[Len(docs)]
             rest == NewestFirst(SubSeq(docs, 1, Len(docs) - 1), email)
         IN  IF last.email = email THEN <<last>> \o rest ELSE rest

\* Fault: the body is stored as the client sent it.
PostNotificationAsSent(token, notification) ==
    LET op == "POST /notifications"
        req == [token |-> token, body |-> notification]
    IN  IF ~verifyToken(token)
        THEN Answer([op |-> op, code |-> 401])
        ELSE /\ notificationsCollection' =
                    Append(notificationsCollection, notification)
             /\ resp' = [op |-> op, req |-> req, code |-> 200,
                         body |-> [insertedId |-> Len(notificationsCollection) + 1]]
             /\ UNCHANGED <<usersCollection, requestsCollection, requestIds,
                            fundingCollection, today, inFlight>>

\* POST /notifications: insert the body with isRead forced to false.
PostNotification(token, notification) ==
    LET op == "POST /notifications"
        req == [token |-> token, body |-> notification]
        newNotification == ApplySet(notification, [isRead |-> FALSE])
    IN  IF ~verifyToken(token)
        THEN Answer([op |-> op, code |-> 401])
        ELSE /\ notificationsCollection' =
                    Append(notificationsCollection, newNotification)
             /\ resp' = [op |-> op, req |-> req, code |-> 200,
                         body |-> [insertedId |-> Len(notificationsCollection) + 1]]
             /\ UNCHANGED <<usersCollection, requestsCollection, requestIds,
                            fundingCollection, today, inFlight>>

\* Fault: no ownership check on the list of notifications.
GetNotificationsOfAnyone(token, email) ==
    LET op == "GET /notifications"
        req == [token |-> token, email |-> email]
    IN  IF ~verifyToken(token)
        THEN Answer([op |-> op, code |-> 401])
        ELSE Answer([op |-> op, req |-> req, code |-> 200,
                     body |-> NewestFirst(notificationsCollection, email)])

\* GET /notifications?email=: the caller's own notifications.
GetNotifications(token, email) ==
    LET op == "GET /notifications"
        req == [token |-> token, email |-> email]
    IN  IF ~verifyToken(token)
        THEN Answer([op |-> op, code |-> 401])
        ELSE IF Decoded(token).email # email
        THEN Answer([op |-> op, req |-> req, code |-> 403])
        ELSE Answer([op |-> op, req |-> req, code |-> 200,
                     body |-> NewestFirst(notificationsCollection, email)])

\* PATCH /notifications/:id: mark one notification read.
PatchNotification(token, id) ==
    LET op == "PATCH /notifications/:id"
        req == [token |-> token, id |-> id]
        found == id \in DOMAIN notificationsCollection
    IN  IF ~verifyToken(token)
        THEN Answer([op |-> op, code |-> 401])
        ELSE /\ notificationsCollection' =
                    IF found
                    THEN [notificationsCollection EXCEPT ![id].isRead = TRUE]
                    ELSE notificationsCollection
             /\ resp' = [op |-> op, req |-> req, code |-> 200,
                         body |-> [matchedCount |-> IF found THEN 1 ELSE 0]]
             /\ UNCHANGED <<usersCollection, requestsCollection, requestIds,
                            fundingCollection, today, inFlight>>

\* Fault: the bulk update has no filter.
PatchNotificationsMarkEveryRead(token, email) ==
    LET op == "PATCH /notifications/mark-all-read/user"
        req == [token |-> token, email |-> email]
    IN  IF ~verifyToken(token)
        THEN Answer([op |-> op, code |-> 401])
        ELSE IF Decoded(token).email # email
        THEN Answer([op |-> op, req |-> req, code |-> 403])
        ELSE /\ notificationsCollection' =
                    [i \in DOMAIN notificationsCollection |->
                        [notificationsCollection[i] EXCEPT !.isRead = TRUE]]
             /\ resp' = [op |-> op, req |-> req, code |-> 200,
                         body |-> [matchedCount |-> Len(notificationsCollection)]]
             /\ UNCHANGED <<usersCollection, requestsCollection, requestIds,
                            fundingCollection, today, inFlight>>

\* PATCH /notifications/mark-all-read/user?email=: mark the caller's own read.
PatchNotificationsMarkAllRead(token, email) ==
    LET op == "PATCH /notifications/mark-all-read/user"
        req == [token |-> token, email |-> email]
        hits == {i \in DOMAIN notificationsCollection :
                    notificationsCollection[i].email = email}
    IN  IF ~verifyToken(token)
        THEN Answer([op |-> op, code |-> 401])
        ELSE IF Decoded(token).email # email
        THEN Answer([op |-> op, req |-> req, code |-> 403])
        ELSE /\ notificationsCollection' =
                    [i \in DOMAIN notificationsCollection |->
                        IF i \in hits
                        THEN [notificationsCollection[i] EXCEPT !.isRead = TRUE]
                        ELSE notificationsCollection[i]]
             /\ resp' = [op |-> op, req |-> req, code |-> 200,
                         body |-> [matchedCount |-> Cardinality(hits)]]
             /\ UNCHANGED <<usersCollection, requestsCollection, requestIds,
                            fundingCollection, today, inFlight>>

\* ---------------------------------------------------------------- specifications
\* The collections stay within the bounds of the model.
Bounded(maxNotif) ==
    /\ requestIds' <= MaxReq
    /\ Len(usersCollection') <= MaxUsers
    /\ Len(fundingCollection') <= MaxFund
    /\ Len(notificationsCollection') <= maxNotif

Dates == 1..MaxDay
Hours == {0, 12, 23}
TzOffsets == {-5, 0, 6}

\* The request lifecycle: the handlers that read or write donationRequests, and
\* the clock, called with a valid session.
LifeRequests ==
    [requesterEmail : Emails, bloodGroup : {"O+"}, recipientDistrict : {"Dhaka"},
     donationDate : Dates]

LifePatches ==
    {[donationStatus |-> s] : s \in Statuses}
    \cup {[donationDate |-> d] : d \in Dates}
    \cup {[donationStatus |-> "inprogress", donationDate |-> MaxDay],
          [_id |-> 1, donationStatus |-> "done"]}

NextLife ==
    \/ Tick
    \/ GetDonationRequests
    \/ \E token \in Emails, email \in Emails : GetMyDonationRequests(token, email)
    \/ \E id \in 1..MaxReq : GetDonationRequest(id)
    \/ \E request \in LifeRequests :
            /\ PostDonationRequest("ann", request, 12, 0, NoFault)
            /\ Bounded(MaxStatusNotif)
    \/ \E id \in 1..MaxReq, body \in LifePatches, fault \in {NoFault, FindFault} :
            /\ PatchDonationRequest("ann", id, body, fault)
            /\ Bounded(MaxStatusNotif)

SpecLife == Init /\ [][NextLife]_vars

\* Status updates: PATCH with and without a session, with every outcome of the
\* notification's store calls.
StatusPatches ==
    {[donationStatus |-> s] : s \in {"inprogress", "done", ""}}
    \cup {[donationDate |-> d] : d \in Dates}
    \cup {[donationStatus |-> "done", requesterEmail |-> "bob"]}

NextStatus ==
    \/ Tick
    \/ \E request \in LifeRequests :
            /\ PostDonationRequest("ann", request, 12, 0, NoFault)
            /\ Bounded(MaxStatusNotif)
    \/ \E token \in {NoToken, "ann"}, id \in 1..MaxReq, body \in StatusPatches,
          fault \in {NoFault, FindFault, InsertFault(0), InsertFault(1)} :
            /\ PatchDonationRequest(token, id, body, fault)
            /\ Bounded(MaxStatusNotif)

SpecStatus == Init /\ [][NextStatus]_vars

\* The fan-out of a new request: a store whose first admin was made by hand, a
\* second user who registers and whose role the admin sets, and creations at any
\* time of day on servers west of, at and east of UTC.
InitSeeded ==
    /\ usersCollection = << [email |-> "ann", role |-> RoleAdmin, status |-> "active",
                             bloodGroup |-> "A-", district |-> "Sylhet"] >>
    /\ requestsCollection = <<>>
    /\ requestIds = 0
    /\ fundingCollection = <<>>
    /\ notificationsCollection = <<>>
    /\ today = 1
    /\ resp = Idle
    /\ inFlight = <<>>

FanoutRoles ==
    {RoleDonor, RoleVolunteer, RoleAdmin, <<"A", "d", "m", "i", "n">>,
     <<"s", "u", "p", "e", "r", "a", "d", "m", "i", "n">>}

FanoutUsers ==
    [email : Emails, bloodGroup : {"O+", "A-"}, district : {"Dhaka", "Sylhet"}]

FanoutRequests ==
    [requesterEmail : {"ann"}, bloodGroup : {"O+"}, recipientDistrict : {"Dhaka"},
     donationDate : {today - 1, today}]

NextFanout ==
    \/ \E newUser \in FanoutUsers : PostUser(newUser) /\ Bounded(MaxNotif)
    \/ \E email \in Emails, status \in {"active", "blocked"} :
            PatchUser(email, email, [status |-> status])
    \/ \E role \in FanoutRoles : PatchUserById("ann", 2, [role |-> role])
    \/ \E request \in FanoutRequests, hour \in Hours, tz \in TzOffsets,
          fault \in {NoFault} :
            /\ PostDonationRequest("bob", request, hour, tz, fault)
            /\ Bounded(MaxNotif)

SpecFanout == InitSeeded /\ [][NextFanout]_vars

\* Every handler, called with and without a session, by the admin and by the
\* other user, over a store with the admin in it; the store calls of the
\* notification blocks succeed or fail.
Faults == {NoFault, FindFault, InsertFault(0), InsertFault(1)}

NextAll ==
    \/ GetDonationRequests
    \/ \E token \in Tokens : GetMyDonationRequests(token, "bob")
    \/ GetDonationRequest(1)
    \/ \E token \in {NoToken, "bob"}, date \in {today - 1, today}, fault \in Faults :
            /\ PostDonationRequest(token,
                    [requesterEmail |-> "bob", bloodGroup |-> "O+",
                     recipientDistrict |-> "Dhaka", donationDate |-> date],
                    12, 0, fault)
            /\ Bounded(MaxStatusNotif)
    \/ \E token \in {BadToken, "ann"}, fault \in Faults,
          body \in {[donationStatus |-> "inprogress"], [donationDate |-> today - 1]} :
            /\ PatchDonationRequest(token, 1, body, fault)
            /\ Bounded(MaxStatusNotif)
    \/ \E token \in {NoToken, "ann"} : DeleteDonationRequest(token, 1)
    \/ /\ PostUser([email |-> "bob", bloodGroup |-> "O+", district |-> "Dhaka"])
       /\ Bounded(MaxStatusNotif)
    \/ GetDonors("O+", "")
    \/ \E token \in {NoToken, "bob"} : PatchUser(token, "bob", [status |-> "blocked"])
    \/ \E token \in {NoToken, "bob"} : GetUserRole(token, "ann")
    \/ \E token \in {NoToken, "bob"} : GetUser(token, "ann")
    \/ \E token \in Tokens : GetUsers(token)
    \/ \E token \in Tokens : PatchUserById(token, 2, [role |-> RoleVolunteer])
    \/ \E token \in {NoToken, "bob"}, fault \in Faults :
            /\ PostFunding(token, [amount |-> <<2, 5>>], fault)
            /\ Bounded(MaxStatusNotif)
    \/ \E token \in Tokens : GetFunding(token)
    \/ \E token \in Tokens : GetAdminStats(token)
    \/ \E token \in {NoToken, "ann"} :
            /\ PostNotification(token, [email |-> "bob", message |-> <<"hello">>,
                                        link |-> <<>>])
            /\ Bounded(MaxStatusNotif)
    \/ \E token \in Tokens, email \in Emails : GetNotifications(token, email)
    \/ \E token \in {NoToken, "ann"} : PatchNotification(token, 1)
    \/ \E token \in Tokens, email \in Emails :
            PatchNotificationsMarkAllRead(token, email)

Spec == InitSeeded /\ [][NextAll]_vars

\* Notifications: every handler that inserts one, the two that mark them read
\* and the list, over a store with the admin in it.
NotifBodies ==
    [email : Emails, message : {<<"hello">>}, link : {<<>>}, isRead : BOOLEAN]

NextNotif ==
    \/ \E notification \in NotifBodies :
            PostNotification("ann", notification) /\ Bounded(MaxNotif)
    \/ PostFunding("bob", [amount |-> <<2, 5>>], NoFault) /\ Bounded(MaxNotif)
    \/ /\ PostDonationRequest("bob",
                [requesterEmail |-> "bob", bloodGroup |-> "O+",
                 recipientDistrict |-> "Dhaka", donationDate |-> today],
                12, 0, NoFault)
       /\ Bounded(MaxNotif)
    \/ /\ PatchDonationRequest("ann", 1, [donationStatus |-> "done"], NoFault)
       /\ Bounded(MaxNotif)
    \/ \E token \in Tokens, id \in 1..MaxNotif : PatchNotification(token, id)
    \/ \E token \in Tokens, email \in Emails :
            PatchNotificationsMarkAllRead(token, email)
    \/ \E token \in Emails, email \in Emails : GetNotifications(token, email)

SpecNotif == InitSeeded /\ [][NextNotif]_vars

\* Users: registration, self-update, the admin's update and the role-gated
\* routes, over a store with the admin in it.
UserBodies ==
    [email : Emails, bloodGroup : {"O+", "A-"}, district : {"Dhaka"}]
    \cup {[email |-> e, bloodGroup |-> "O+", district |-> "Dhaka",
           role |-> RoleAdmin, status |-> "blocked"] : e \in Emails}

SelfBodies ==
    {[district |-> "Sylhet"], [role |-> RoleAdmin], [status |-> "blocked"],
     [status |-> "active"], [email |-> "ann", bloodGroup |-> "A-"]}

NextUsers ==
    \/ \E newUser \in UserBodies : PostUser(newUser) /\ Bounded(MaxNotif)
    \/ \E token \in Emails, email \in Emails, user \in SelfBodies :
            PatchUser(token, email, user)
    \/ \E token \in Tokens, id \in 1..MaxUsers,
          role \in {RoleDonor, RoleVolunteer, RoleAdmin} :
            PatchUserById(token, id, [role |-> role])
    \/ \E token \in Tokens : GetUsers(token)
    \/ \E token \in Tokens : GetFunding(token)
    \/ \E token \in Tokens : GetAdminStats(token)

SpecUsers == InitSeeded /\ [][NextUsers]_vars

\* Concurrent registrations: the two store calls of POST /users are separate
\* steps, and other registrations run between them.
NextRace ==
    \/ \E newUser \in [email : Emails, bloodGroup : {"O+", "A-"}, district : {"Dhaka"}] :
            /\ PostUserFindOne(newUser)
            /\ Len(inFlight') <= MaxInFlight
    \/ \E k \in 1..MaxInFlight : PostUserInsertOne(k) /\ Bounded(MaxNotif)

SpecRace == Init /\ [][NextRace]_vars

\* Creation and removal: requests created with and without a status of the
\* client's, patched to every status (the status notification's lookup fails,
\* so the patches add no notification), and deleted by the owner, by the
\* admin, by the other user and without a session.
OwnerRequests ==
    [requesterEmail : Emails, bloodGroup : {"O+"}, recipientDistrict : {"Dhaka"},
     donationDate : {today}]
    \cup [requesterEmail : Emails, bloodGroup : {"O+"}, recipientDistrict : {"Dhaka"},
          donationDate : {today}, donationStatus : {"done", "inprogress"}]

NextOwner ==
    \/ /\ PostUser([email |-> "bob", bloodGroup |-> "A-", district |-> "Sylhet"])
       /\ Bounded(MaxNotif)
    \/ \E token \in Emails, request \in OwnerRequests :
            /\ PostDonationRequest(token, request, 12, 0, NoFault)
            /\ Bounded(MaxNotif)
    \/ \E id \in 1..MaxReq, status \in Statuses :
            /\ PatchDonationRequest("ann", id, [donationStatus |-> status], FindFault)
            /\ Bounded(MaxNotif)
    \/ \E token \in Tokens, id \in 1..MaxReq : DeleteDonationRequest(token, id)

SpecOwner == InitSeeded /\ [][NextOwner]_vars

\* Claims: requests created with and without a donor in the body, claimed and
\* closed by PATCH (the status notification's lookup fails, so the patches add
\* no notification), and read by get-one calls whose two store calls are
\* separate steps, with patches running between them.
ClaimRequests ==
    [requesterEmail : {"ann"}, bloodGroup : {"O+"}, recipientDistrict : {"Dhaka"},
     donationDate : {today}]
    \cup [requesterEmail : {"ann"}, bloodGroup : {"O+"}, recipientDistrict : {"Dhaka"},
          donationDate : {today}, donorEmail : {"bob"}]

ClaimPatches ==
    {[donationStatus |-> "inprogress", donorEmail |-> d] : d \in Emails}
    \cup {[donationStatus |-> s] : s \in {"done", "canceled"}}

NextClaim ==
    \/ Tick
    \/ \E request \in ClaimRequests :
            /\ PostDonationRequest("ann", request, 12, 0, NoFault)
            /\ Bounded(MaxNotif)
    \/ \E token \in Emails, id \in 1..MaxReq, body \in ClaimPatches :
            PatchDonationRequest(token, id, body, FindFault)
    \/ \E id \in 1..MaxReq :
            GetDonationRequestFindOne(id) /\ Len(inFlight') <= MaxInFlight
    \/ \E k \in 1..MaxInFlight : GetDonationRequestUpdateOne(k)

SpecClaim == Init /\ [][NextClaim]_vars

\* ---------------------------------------------------------------- properties
\* The stored requests that are pending with a donationDate before today.
PastDue ==
    {i \in DOMAIN requestsCollection :
        /\ requestsCollection[i].donationStatus = "pending"
        /\ requestsCollection[i].donationDate # NoDate
        /\ requestsCollection[i].donationDate < today}

Expired(doc) == [doc EXCEPT !.donationStatus = "expired"]

\* C1: every request that is pending and past-due when list-all, list-mine (by
\* its owner) or get-one is called is returned as expired and stored as expired.
C1_ListAll ==
    resp'.op = "GET /donation-requests" =>
        \A i \in PastDue :
            /\ i \in DOMAIN resp'.body
            /\ resp'.body[i] = Expired(requestsCollection[i])
            /\ requestsCollection'[i] = Expired(requestsCollection[i])
C1_ListMine ==
    (resp'.op = "GET /donation-requests/my" /\ resp'.code = 200) =>
        \A i \in PastDue :
            requestsCollection[i].requesterEmail = resp'.req.email =>
                /\ i \in DOMAIN resp'.body
                /\ resp'.body[i] = Expired(requestsCollection[i])
                /\ requestsCollection'[i] = Expired(requestsCollection[i])
C1_GetOne ==
    (resp'.op = "GET /donation-requests/:id" /\ resp'.req.id \in PastDue) =>
        /\ resp'.body = Expired(requestsCollection[resp'.req.id])
        /\ requestsCollection'[resp'.req.id] = Expired(requestsCollection[resp'.req.id])
C1_ReadsExpire == [][C1_ListAll /\ C1_ListMine /\ C1_GetOne]_vars

\* A list has answered with a request that is past-due and expired.
C1_Witness ==
    /\ resp.op = "GET /donation-requests/my"
    /\ resp.code = 200
    /\ \E i \in DOMAIN resp.body :
          /\ resp.body[i].donationStatus = "expired"
          /\ resp.body[i].donationDate < today

\* C2: donationStatus changes only along pending->inprogress, inprogress->done,
\* pending->expired, pending->canceled and inprogress->canceled.
LifecycleEdges ==
    {<<"pending", "inprogress">>, <<"inprogress", "done">>, <<"pending", "expired">>,
     <<"pending", "canceled">>, <<"inprogress", "canceled">>}
C2_OnlyLifecycleEdges ==
    [][\A i \in (DOMAIN requestsCollection) \cap (DOMAIN requestsCollection') :
          \/ requestsCollection'[i].donationStatus = requestsCollection[i].donationStatus
          \/ <<requestsCollection[i].donationStatus,
               requestsCollection'[i].donationStatus>> \in LifecycleEdges]_vars

\* C4: a PATCH to inprogress on a stored request dated before today is answered
\* 400, whatever else the body holds, and writes nothing.
C4_PastDueClaimRefused ==
    [][(/\ resp'.op = "PATCH /donation-requests/:id"
        /\ resp'.code # 401
        /\ "donationStatus" \in DOMAIN resp'.req.body
        /\ resp'.req.body.donationStatus = "inprogress"
        /\ resp'.req.id \in DOMAIN requestsCollection
        /\ requestsCollection[resp'.req.id].donationDate # NoDate
        /\ requestsCollection[resp'.req.id].donationDate < today)
       => (/\ resp'.code = 400
           /\ requestsCollection' = requestsCollection
           /\ notificationsCollection' = notificationsCollection)]_vars

\* A claim that also moves the date forward was refused on a past-due request.
C4_Witness ==
    /\ resp.op = "PATCH /donation-requests/:id"
    /\ resp.code = 400
    /\ "donationDate" \in DOMAIN resp.req.body
    /\ requestsCollection[resp.req.id].donationDate < today

\* C5: a PATCH never changes a request that is pending and past-due while it is
\* still pending: the request is left alone, or it is expired before the body
\* is applied.
C5_PastDueNotPatchedWhilePending ==
    [][(/\ resp'.op = "PATCH /donation-requests/:id"
        /\ resp'.req.id \in PastDue)
       => LET doc == requestsCollection[resp'.req.id]
              set == [f \in (DOMAIN resp'.req.body) \ {"_id"} |-> resp'.req.body[f]]
          IN  \/ requestsCollection'[resp'.req.id] = doc
              \/ requestsCollection'[resp'.req.id] =
                    [f \in DOMAIN doc |->
                        IF f \in DOMAIN set THEN set[f] ELSE Expired(doc)[f]]]_vars

\* The notification a status PATCH owes: to the requesterEmail the request has
\* once the body is applied, naming the new status.
C7_Owed ==
    [email |-> requestsCollection'[resp'.req.id].requesterEmail,
     message |-> <<"Your blood request status has updated to",
                   resp'.req.body.donationStatus>>,
     link |-> <<>>,
     isRead |-> FALSE]
C7_OnExisting ==
    /\ resp'.op = "PATCH /donation-requests/:id"
    /\ resp'.code # 401
    /\ resp'.req.id \in DOMAIN requestsCollection
C7_HasStatus ==
    /\ "donationStatus" \in DOMAIN resp'.req.body
    /\ resp'.req.body.donationStatus # ""
C7_StoreFails == resp'.code = 200 /\ resp'.fault # "none"

C3_PastDateRefused ==
    [][(/\ resp'.op = "POST /donation-requests"
        /\ resp'.code # 401
        /\ resp'.req.body.donationDate # NoDate
        /\ resp'.req.body.donationDate < today)
       => (/\ resp'.code = 400
           /\ requestsCollection' = requestsCollection
           /\ requestIds' = requestIds
           /\ notificationsCollection' = notificationsCollection)]_vars

\* A creation dated yesterday was refused while a user was there to be notified.
C3_Witness ==
    /\ resp.op = "POST /donation-requests"
    /\ resp.code = 400
    /\ resp.req.body.donationDate < today
    /\ \E i \in DOMAIN usersCollection :
          usersCollection[i].role = RoleAdmin /\ usersCollection[i].status = "active"

\* role equals word, ignoring letter case.
SameWord(role, word) ==
    /\ Len(role) = Len(word)
    /\ \A j \in 1..Len(word) :
          role[j] = word[j] \/ (role[j] \in DOMAIN ToLower /\ ToLower[role[j]] = word[j])

\* The users C6 names as matched by a request.
C6_Matched(user, request) ==
    /\ user.status = "active"
    /\ \/ /\ user.role = RoleDonor
          /\ user.bloodGroup = request.bloodGroup
          /\ user.district = request.recipientDistrict
       \/ SameWord(user.role, RoleAdmin)
       \/ SameWord(user.role, RoleVolunteer)

\* C6: a successful creation inserts exactly one notification for every matched
\* user (an active donor of the request's blood group and district, an active
\* admin, an active volunteer) and none for anyone else.
C6_OnePerMatchedUser ==
    [][(/\ resp'.op = "POST /donation-requests"
        /\ resp'.code = 200
        /\ resp'.fault = "none")
       => LET request == requestsCollection'[resp'.body.insertedId]
              inserted == SubSeq(notificationsCollection',
                                 Len(notificationsCollection) + 1,
                                 Len(notificationsCollection'))
              matched == {i \in DOMAIN usersCollection :
                            C6_Matched(usersCollection[i], request)}
          IN  /\ \A i \in matched :
                    Cardinality({k \in DOMAIN inserted :
                        inserted[k].email = usersCollection[i].email}) = 1
              /\ \A k \in DOMAIN inserted :
                    \E i \in matched : inserted[k].email = usersCollection[i].email]_vars

\* C8: a failure of the recipient lookup or of the notification insert leaves
\* the creation, the status update and the funding as they are without it: the
\* primary write is in the store and the response is the success of that write.
C8_FanoutFailureSwallowed ==
    [][(/\ resp'.op \in {"POST /donation-requests", "PATCH /donation-requests/:id",
                         "POST /funding"}
        /\ resp'.code \notin {400, 401}
        /\ resp'.fault # "none")
       => /\ resp'.code = 200
          /\ resp'.op = "POST /donation-requests" =>
                /\ resp'.body.insertedId = requestIds + 1
                /\ DOMAIN requestsCollection' =
                       DOMAIN requestsCollection \cup {requestIds + 1}
                /\ requestsCollection'[requestIds + 1].donationStatus = "pending"
                /\ \A f \in DOMAIN resp'.req.body :
                      requestsCollection'[requestIds + 1][f] = resp'.req.body[f]
          /\ resp'.op = "PATCH /donation-requests/:id" =>
                /\ DOMAIN requestsCollection' = DOMAIN requestsCollection
                /\ resp'.req.id \in DOMAIN requestsCollection =>
                      /\ resp'.body.matchedCount = 1
                      /\ \A f \in DOMAIN resp'.req.body :
                            requestsCollection'[resp'.req.id][f] = resp'.req.body[f]
          /\ resp'.op = "POST /funding" =>
                /\ Len(fundingCollection') = Len(fundingCollection) + 1
                /\ resp'.body.insertedId = Len(fundingCollection')
                /\ fundingCollection'[Len(fundingCollection')].amount = 25]_vars

\* A creation was answered 200 and its request is stored although the insert of
\* its notifications failed.
C8_Witness ==
    /\ resp.op = "POST /donation-requests"
    /\ resp.code = 200
    /\ resp.fault = "insert"
    /\ resp.body.insertedId \in DOMAIN requestsCollection
    /\ notificationsCollection = <<>>

\* C9: a request answered 400, 401 or 403 leaves the four collections as they were.
C9_RefusalsChangeNothing ==
    [][resp'.code \in {400, 401, 403}
       => UNCHANGED <<usersCollection, requestsCollection, fundingCollection,
                      notificationsCollection>>]_vars

\* A list of somebody else's requests was refused while one of them was pending
\* and past-due.
C9_Witness ==
    /\ resp.op = "GET /donation-requests/my"
    /\ resp.code = 403
    /\ \E id \in DOMAIN requestsCollection :
          /\ requestsCollection[id].requesterEmail = resp.req.email
          /\ PastDuePending(requestsCollection[id], today)

\* C10: the list of notifications and mark-all-read are answered 200 exactly when
\* the caller's email is the email asked for; otherwise the answer is 403, carries
\* no notification and changes none.
C10_OwnNotificationsOnly ==
    [][(/\ resp'.op \in {"GET /notifications",
                         "PATCH /notifications/mark-all-read/user"}
        /\ resp'.code # 401)
       => IF Decoded(resp'.req.token).email = resp'.req.email
          THEN /\ resp'.code = 200
               /\ resp'.op = "GET /notifications" =>
                     \A k \in DOMAIN resp'.body : resp'.body[k].email = resp'.req.email
          ELSE /\ resp'.code = 403
               /\ "body" \notin DOMAIN resp'
               /\ notificationsCollection' = notificationsCollection]_vars

\* Mark-all-read for somebody else's email was refused while that email had an
\* unread notification.
C10_Witness ==
    /\ resp.op = "PATCH /notifications/mark-all-read/user"
    /\ resp.code = 403
    /\ \E k \in DOMAIN notificationsCollection :
          /\ notificationsCollection[k].email = resp.req.email
          /\ ~notificationsCollection[k].isRead

\* C11: isRead of a stored notification changes only in a step of a request
\* whose caller's email is the email of that notification.
C11_OnlyRecipientMarksRead ==
    [][\A k \in DOMAIN notificationsCollection :
          notificationsCollection'[k].isRead # notificationsCollection[k].isRead
          => /\ resp'.op \in {"PATCH /notifications/:id",
                               "PATCH /notifications/mark-all-read/user"}
             /\ Decoded(resp'.req.token).email = notificationsCollection[k].email]_vars

\* C12: a mark-all-read answered 200 for an email leaves every notification of
\* that email read and every other notification as it was.
C12_MarkAllReadFrame ==
    [][(/\ resp'.op = "PATCH /notifications/mark-all-read/user"
        /\ resp'.code = 200)
       => /\ DOMAIN notificationsCollection' = DOMAIN notificationsCollection
          /\ \A k \in DOMAIN notificationsCollection :
                IF notificationsCollection[k].email = resp'.req.email
                THEN notificationsCollection'[k] =
                        [notificationsCollection[k] EXCEPT !.isRead = TRUE]
                ELSE notificationsCollection'[k] = notificationsCollection[k]]_vars

\* A mark-all-read was answered 200 with the caller's notification read and an
\* unread notification of the other user in the store.
C12_Witness ==
    /\ resp.op = "PATCH /notifications/mark-all-read/user"
    /\ resp.code = 200
    /\ \E k, l \in DOMAIN notificationsCollection :
          /\ notificationsCollection[k].email = resp.req.email
          /\ notificationsCollection[k].isRead
          /\ notificationsCollection[l].email # resp.req.email
          /\ ~notificationsCollection[l].isRead

\* C13: every notification enters the store with isRead = false, and a stored
\* notification that is read stays in the store and stays read.
C13_UnreadAtBirthReadForever ==
    [][/\ \A k \in (DOMAIN notificationsCollection') \ (DOMAIN notificationsCollection) :
             notificationsCollection'[k].isRead = FALSE
       /\ \A k \in DOMAIN notificationsCollection :
             notificationsCollection[k].isRead
             => (k \in DOMAIN notificationsCollection'
                 /\ notificationsCollection'[k].isRead)]_vars

\* A notification posted with isRead = true is stored unread.
C13_Witness ==
    /\ resp.op = "POST /notifications"
    /\ resp.code = 200
    /\ resp.req.body.isRead = TRUE
    /\ notificationsCollection[resp.body.insertedId].isRead = FALSE

\* C14: PATCH /users/:email changes the role and the status of no user record.
C14_SelfUpdateKeepsRoleAndStatus ==
    [][resp'.op = "PATCH /users/:email"
       => \A i \in DOMAIN usersCollection :
             /\ usersCollection'[i].role = usersCollection[i].role
             /\ usersCollection'[i].status = usersCollection[i].status]_vars

\* The roles stored for an email when a request arrives.
C15_StoredRoles(email) ==
    {usersCollection[i].role :
        i \in {j \in DOMAIN usersCollection : usersCollection[j].email = email}}

\* C15: a call of a role-gated route with a valid token is answered by the role
\* stored for the caller's email when the call arrives: the admin route is
\* allowed exactly for a stored admin, the volunteer routes exactly for a stored
\* volunteer or admin, and every other caller gets 403.
C15_GateReadsStoredRole ==
    [][/\ (resp'.op = "PATCH /users/update/:id" /\ resp'.code # 401)
          => IF C15_StoredRoles(Decoded(resp'.req.token).email) = {RoleAdmin}
             THEN resp'.code = 200
             ELSE resp'.code = 403 /\ usersCollection' = usersCollection
       /\ (resp'.op \in {"GET /users", "GET /funding", "GET /admin-stats"}
           /\ resp'.code # 401)
          => IF C15_StoredRoles(Decoded(resp'.req.token).email)
                    \in {{RoleAdmin}, {RoleVolunteer}}
             THEN resp'.code = 200
             ELSE resp'.code = 403 /\ "body" \notin DOMAIN resp']_vars

\* The admin of the initial store, no longer stored as admin, was refused on the
\* admin route with the token she had all along.
C15_Witness ==
    /\ resp.op = "PATCH /users/update/:id"
    /\ resp.code = 403
    /\ resp.req.token = "ann"
    /\ C15_StoredRoles("ann") = {RoleDonor}

\* C16: registering an email that has a user record answers insertedId = null
\* and leaves the users collection as it was.
C16_SecondRegistrationIsNoOp ==
    [][(/\ resp'.op = "POST /users"
        /\ \E i \in DOMAIN usersCollection :
              usersCollection[i].email = resp'.req.body.email)
       => /\ "message" \in DOMAIN resp'.body
          /\ resp'.body.insertedId = Null
          /\ usersCollection' = usersCollection]_vars

\* A registration that asked for the role admin under a registered email was
\* answered insertedId = null.
C16_Witness ==
    /\ resp.op = "POST /users"
    /\ "message" \in DOMAIN resp.body
    /\ resp.body.insertedId = Null
    /\ "role" \in DOMAIN resp.req.body
    /\ \E i \in DOMAIN usersCollection :
          /\ usersCollection[i].email = resp.req.body.email
          /\ usersCollection[i].role = RoleDonor

\* C17: the users collection holds at most one record per email.
C17_OneRecordPerEmail ==
    \A i, j \in DOMAIN usersCollection :
        usersCollection[i].email = usersCollection[j].email => i = j

\* C18: a creation answered 200 stores the request with donationStatus =
\* pending, whatever donationStatus the body carries.
C18_CreatedPending ==
    [][(resp'.op = "POST /donation-requests" /\ resp'.code = 200)
       => /\ resp'.body.insertedId \in DOMAIN requestsCollection'
          /\ resp'.body.insertedId \notin DOMAIN requestsCollection
          /\ requestsCollection'[resp'.body.insertedId].donationStatus = "pending"]_vars

\* A creation whose body said donationStatus = done was stored as pending.
C18_Witness ==
    /\ resp.op = "POST /donation-requests"
    /\ resp.code = 200
    /\ "donationStatus" \in DOMAIN resp.req.body
    /\ resp.req.body.donationStatus = "done"
    /\ requestsCollection[resp.body.insertedId].donationStatus = "pending"

\* C19: a request leaves the store only in a DELETE of it whose caller is its
\* owner or a stored admin, and a DELETE by the owner or an admin removes the
\* request whatever its status.
C19_DeletedByOwnerOrAdmin ==
    [][/\ \A id \in (DOMAIN requestsCollection) \ (DOMAIN requestsCollection') :
             /\ resp'.op = "DELETE /donation-requests/:id"
             /\ resp'.req.id = id
             /\ \/ Decoded(resp'.req.token).email = requestsCollection[id].requesterEmail
                \/ \E i \in DOMAIN usersCollection :
                      /\ usersCollection[i].email = Decoded(resp'.req.token).email
                      /\ usersCollection[i].role = RoleAdmin
       /\ (resp'.op = "DELETE /donation-requests/:id" /\ resp'.code = 200)
          => resp'.req.id \notin DOMAIN requestsCollection']_vars

\* The three reads that expire.
C20_Reads ==
    {"GET /donation-requests", "GET /donation-requests/my",
     "GET /donation-requests/:id"}

\* The step repeats the read answered just before it.
C20_SameReadAgain ==
    /\ resp.op = resp'.op
    /\ resp.code = 200
    /\ resp'.op # "GET /donation-requests" => resp.req = resp'.req

\* C20: a read answered 200 leaves every expired request as it is stored and
\* returns it as expired; a read that repeats the one answered just before it
\* changes nothing in the store and is answered as that one was.
C20_ExpiryIdempotent ==
    [][(resp'.op \in C20_Reads /\ resp'.code = 200)
       => /\ \A id \in DOMAIN requestsCollection :
                requestsCollection[id].donationStatus = "expired"
                => /\ requestsCollection'[id] = requestsCollection[id]
                   /\ resp'.op = "GET /donation-requests"
                        => resp'.body[id].donationStatus = "expired"
                   /\ (resp'.op = "GET /donation-requests/my"
                          /\ requestsCollection[id].requesterEmail = resp'.req.email)
                        => resp'.body[id].donationStatus = "expired"
                   /\ (resp'.op = "GET /donation-requests/:id" /\ resp'.req.id = id)
                        => resp'.body.donationStatus = "expired"
          /\ C20_SameReadAgain
                => (requestsCollection' = requestsCollection /\ resp' = resp)]_vars

\* A get-one answered with a request that is stored expired and dated before
\* today.
C20_Witness ==
    /\ resp.op = "GET /donation-requests/:id"
    /\ resp.req.id \in DOMAIN requestsCollection
    /\ resp.body = requestsCollection[resp.req.id]
    /\ resp.body.donationStatus = "expired"
    /\ resp.body.donationDate < today

\* C21: the notification a status PATCH inserts is addressed to the
\* requesterEmail the request had before the patch was applied.
C21_NotifiesOriginalRequester ==
    [][(/\ resp'.op = "PATCH /donation-requests/:id"
        /\ resp'.code = 200
        /\ Len(notificationsCollection') > Len(notificationsCollection))
       => notificationsCollection'[Len(notificationsCollection')].email =
             requestsCollection[resp'.req.id].requesterEmail]_vars

\* C23: a list answered 200 changes only requests that were pending and dated
\* before today, changes only their donationStatus (to expired), and list-mine
\* changes only requests of the email it was asked for.
C23_SweepFrame ==
    [][(/\ resp'.op \in {"GET /donation-requests", "GET /donation-requests/my"}
        /\ resp'.code = 200)
       => /\ DOMAIN requestsCollection' = DOMAIN requestsCollection
          /\ \A id \in DOMAIN requestsCollection :
                requestsCollection'[id] # requestsCollection[id]
                => /\ requestsCollection[id].donationStatus = "pending"
                   /\ requestsCollection[id].donationDate # NoDate
                   /\ requestsCollection[id].donationDate < today
                   /\ requestsCollection'[id] =
                         [requestsCollection[id] EXCEPT !.donationStatus = "expired"]
                   /\ resp'.op = "GET /donation-requests/my"
                         => requestsCollection[id].requesterEmail = resp'.req.email]_vars

\* A list-mine was answered 200 while a request of the other owner is still
\* stored pending and dated before today, and one of the caller's is expired.
C23_Witness ==
    /\ resp.op = "GET /donation-requests/my"
    /\ resp.code = 200
    /\ \E id, other \in DOMAIN requestsCollection :
          /\ requestsCollection[id].requesterEmail = resp.req.email
          /\ requestsCollection[id].donationStatus = "expired"
          /\ requestsCollection[other].requesterEmail # resp.req.email
          /\ requestsCollection[other].donationStatus = "pending"
          /\ requestsCollection[other].donationDate < today

\* C24: at a creation, an active user who is no matching donor is notified
\* exactly when their role is "admin" or "volunteer" in some letter case.
C24_RoleMatchIsExactIgnoringCase ==
    [][(/\ resp'.op = "POST /donation-requests"
        /\ resp'.code = 200
        /\ resp'.fault = "none")
       => LET request == requestsCollection'[resp'.body.insertedId]
              inserted == SubSeq(notificationsCollection',
                                 Len(notificationsCollection) + 1,
                                 Len(notificationsCollection'))
          IN  \A i \in DOMAIN usersCollection :
                 (/\ usersCollection[i].status = "active"
                  /\ usersCollection[i].role # RoleDonor)
                 => ((\E k \in DOMAIN inserted :
                         inserted[k].email = usersCollection[i].email)
                     <=> (\/ SameWord(usersCollection[i].role, RoleAdmin)
                          \/ SameWord(usersCollection[i].role, RoleVolunteer)))]_vars

\* C25: a get-one, a PATCH or a DELETE of an id that is not in the store is
\* answered 200 and leaves every collection as it was; the get-one answers null.
C25_MissingIdIsNoOp ==
    [][(/\ resp'.op \in {"GET /donation-requests/:id", "PATCH /donation-requests/:id",
                         "DELETE /donation-requests/:id"}
        /\ resp'.code # 401
        /\ resp'.req.id \notin DOMAIN requestsCollection)
       => /\ resp'.code = 200
          /\ resp'.op = "GET /donation-requests/:id" => resp'.body = Null
          /\ UNCHANGED <<usersCollection, requestsCollection, requestIds,
                         fundingCollection, notificationsCollection>>]_vars

\* A PATCH that carries a donationStatus was answered for an id that was
\* handed out and is no longer in the store.
C25_Witness ==
    /\ resp.op = "PATCH /donation-requests/:id"
    /\ resp.code = 200
    /\ "donationStatus" \in DOMAIN resp.req.body
    /\ resp.req.id <= requestIds
    /\ resp.req.id \notin DOMAIN requestsCollection
    /\ resp.body.matchedCount = 0

\* C28: a user record enters the store with role donor and status active, and
\* the role of a stored record changes only in a PATCH /users/update/:id whose
\* caller is stored as admin when the call arrives.
C28_RoleOnlyByAdmin ==
    [][/\ \A i \in (DOMAIN usersCollection') \ (DOMAIN usersCollection) :
             /\ usersCollection'[i].role = RoleDonor
             /\ usersCollection'[i].status = "active"
       /\ \A i \in DOMAIN usersCollection :
             usersCollection'[i].role # usersCollection[i].role
             => /\ resp'.op = "PATCH /users/update/:id"
                /\ \E j \in DOMAIN usersCollection :
                      /\ usersCollection[j].email = Decoded(resp'.req.token).email
                      /\ usersCollection[j].role = RoleAdmin]_vars

\* A self-update that asked for the role admin was answered 200 and the record
\* is still a donor's, registered with a body that asked for admin too.
C28_Witness ==
    /\ resp.op = "PATCH /users/:email"
    /\ resp.code = 200
    /\ "role" \in DOMAIN resp.req.body
    /\ resp.req.email = "bob"
    /\ \E i \in DOMAIN usersCollection :
          /\ usersCollection[i].email = "bob"
          /\ usersCollection[i].role = RoleDonor

\* C22: no stored request in status pending carries a donorEmail or a donorName.
C22_PendingHasNoDonor ==
    \A id \in DOMAIN requestsCollection :
        requestsCollection[id].donationStatus = "pending"
        => /\ "donorEmail" \notin DOMAIN requestsCollection[id]
           /\ "donorName" \notin DOMAIN requestsCollection[id]

\* C26: the update that finishes a get-one never moves a request stored as
\* inprogress, done or canceled to expired, whatever ran since its findOne.
C26_ReadExpiresOnlyPending ==
    [][\A id \in DOMAIN requestsCollection :
          (/\ Len(inFlight') < Len(inFlight)
           /\ resp'.op = "GET /donation-requests/:id"
           /\ requestsCollection[id].donationStatus \in {"inprogress", "done", "canceled"})
          => requestsCollection'[id].donationStatus # "expired"]_vars

\* C27: a PATCH to inprogress on a request that is already inprogress with a
\* donorEmail leaves that donorEmail as it was.
C27_ClaimedByOneDonor ==
    [][(/\ resp'.op = "PATCH /donation-requests/:id"
        /\ resp'.code # 401
        /\ "donationStatus" \in DOMAIN resp'.req.body
        /\ resp'.req.body.donationStatus = "inprogress"
        /\ resp'.req.id \in DOMAIN requestsCollection
        /\ requestsCollection[resp'.req.id].donationStatus = "inprogress"
        /\ "donorEmail" \in DOMAIN requestsCollection[resp'.req.id])
       => requestsCollection'[resp'.req.id].donorEmail =
             requestsCollection[resp'.req.id].donorEmail]_vars

====
